---- MODULE Spec2Model ----
(***************************************************************************)
(* A model of run_entropy (src/run_entropy.cpp) and of its trajectory      *)
(* helpers (src/my_hydro_helper.cpp): the driver's stepping loop, the      *)
(* right-hand side entropy_generation_rhs::operator() it hands to the      *)
(* integrator, and the step-size update.                                   *)
(*                                                                         *)
(* Numbers.  A C++ double is modelled by an exact rational <<n, d>> in     *)
(* lowest terms with d > 0, or by one of the IEEE specials <<1, 0>>        *)
(* (+inf), <<-1, 0>> (-inf), <<0, 0>> (NaN).  Division by zero, inf - inf  *)
(* and 0 * inf give what IEEE arithmetic gives; rounding is not modelled.  *)
(*                                                                         *)
(* Collaborators that are not part of the repository (the network engine   *)
(* behind nnt::Zone, the libnucnet calls, boost::odeint's stepper) are     *)
(* modelled at their call sites: what they return is drawn from small      *)
(* sets, and each call that can throw has a failing outcome.               *)
(***************************************************************************)
EXTENDS Integers, Sequences, FiniteSets, TLC

(***************************************************************************)
(* Doubles.                                                                *)
(***************************************************************************)
AbsInt(n) == IF n < 0 THEN -n ELSE n

SgnInt(n) == IF n < 0 THEN -1 ELSE IF n = 0 THEN 0 ELSE 1

RECURSIVE GCD(_, _)
GCD(a, b) == IF b = 0 THEN a ELSE GCD(b, a % b)

\* an operator applied to the values of its arguments, each evaluated once
Once1(Op(_), a) == CHOOSE r \in {Op(v) : v \in {a}} : TRUE

Once2(Op(_, _), a, b) == CHOOSE r \in {Op(p[1], p[2]) : p \in {<<a, b>>}} : TRUE

NormValues(n, d) ==
    IF d = 0 THEN <<SgnInt(n), 0>>
    ELSE LET g == GCD(AbsInt(n), AbsInt(d))
             s == IF d < 0 THEN -1 ELSE 1
         IN  <<s * (n \div g), s * (d \div g)>>

Norm(n, d) == Once2(NormValues, n, d)

R(n) == <<n, 1>>

Frac(n, d) == Norm(n, d)

NaN == <<0, 0>>

PosInf == <<1, 0>>

IsNaN(a) == a = NaN

IsFinite(a) == a[2] # 0

NegValue(a) == <<-a[1], a[2]>>

RNeg(a) == Once1(NegValue, a)

AddValues(a, b) ==
    IF a[2] = 0 /\ b[2] = 0
    THEN (IF a = b THEN a ELSE NaN)
    ELSE Norm(a[1] * b[2] + b[1] * a[2], a[2] * b[2])

RAdd(a, b) == Once2(AddValues, a, b)

RSub(a, b) == RAdd(a, RNeg(b))

MulValues(a, b) == Norm(a[1] * b[1], a[2] * b[2])

RMul(a, b) == Once2(MulValues, a, b)

InvValue(b) == IF b[1] < 0 THEN <<-b[2], -b[1]>> ELSE <<b[2], b[1]>>

RInv(b) == Once1(InvValue, b)

RDiv(a, b) == RMul(a, RInv(b))

LtValues(a, b) ==
    /\ ~IsNaN(a)
    /\ ~IsNaN(b)
    /\ IF a[2] = 0 /\ b[2] = 0 THEN a[1] < b[1]
       ELSE IF a[2] = 0 THEN a[1] < 0
       ELSE IF b[2] = 0 THEN b[1] > 0
       ELSE a[1] * b[2] < b[1] * a[2]

\* a < b as the double comparison: false when either side is NaN
RLt(a, b) == Once2(LtValues, a, b)

RGt(a, b) == RLt(b, a)

LeValues(a, b) == ~IsNaN(a) /\ ~IsNaN(b) /\ ~LtValues(b, a)

RLe(a, b) == Once2(LeValues, a, b)

RGe(a, b) == RLe(b, a)

AbsValue(a) == <<AbsInt(a[1]), a[2]>>

\* fabs
RAbs(a) == Once1(AbsValue, a)

MinValues(a, b) == IF LtValues(a, b) THEN a ELSE b

\* GSL_MIN(a, b): ((a) < (b) ? (a) : (b))
RMin(a, b) == Once2(MinValues, a, b)

(***************************************************************************)
(* Bounds of the model.                                                    *)
(***************************************************************************)
\* the stepping loop is followed for at most MaxIter iterations
MaxIter == 4

\* an iteration is followed only from finite values whose numerators and
\* denominators are at most MaxMagnitude
MaxMagnitude == 16

(***************************************************************************)
(* Program constants.                                                      *)
(***************************************************************************)
\* B_OUTPUT_EVERY_TIME_DUMP defined true
OutputEveryTimeDump == TRUE

\* #define B_OUTPUT_EVERY_TIME_DUMP false
B_OUTPUT_EVERY_TIME_DUMP == FALSE

\* #define D_X_REG_T 0.15
D_X_REG_T == Frac(15, 100)

\* double d_h = 1.e99: larger than every step size of the model
D_H_INIT == PosInf

\* boost::numeric::odeint::adams_bashforth<4, my_state_type>
AdamsBashforthSteps == 4

\* x_lim = list_of(1.e-10)(1.)(1.e-5), as the decimal exponents -10, 0, -5
x_lim == <<10, 0, 5>>

RECURSIVE DivPow10(_, _)
DivPow10(n, e) == IF e = 0 THEN n ELSE DivPow10(n \div 10, e - 1)

\* fabs( a ) > 10^-e, without forming 10^e
GtPow10Neg(a, e) ==
    IF a[2] = 0 THEN a[1] # 0
    ELSE AbsInt(a[1]) > DivPow10(a[2], e)

(***************************************************************************)
(* The options (po::variables_map) a run is started with.                  *)
(***************************************************************************)
TrajectoryOptions ==
    { [rho_0 |-> R(2), rho_1 |-> R(1), tau |-> R(1), delta |-> R(1)],
      [rho_0 |-> R(3), rho_1 |-> R(2), tau |-> R(-1), delta |-> R(1)],
      [rho_0 |-> R(1), rho_1 |-> R(1), tau |-> Frac(-1, 3), delta |-> R(1)],
      [rho_0 |-> R(2), rho_1 |-> R(2), tau |-> R(0), delta |-> R(1)],
      [rho_0 |-> R(2), rho_1 |-> R(3), tau |-> R(1), delta |-> R(1)],
      [rho_0 |-> R(4), rho_1 |-> R(1), tau |-> Frac(1, 3), delta |-> R(1)] }

RunOptions ==
    { [time |-> R(0), tend |-> R(1), dtime |-> Frac(1, 4), steps |-> 2],
      [time |-> R(0), tend |-> R(1), dtime |-> R(1), steps |-> 1],
      [time |-> R(0), tend |-> R(1), dtime |-> R(2), steps |-> 3],
      [time |-> R(1), tend |-> R(1), dtime |-> R(1), steps |-> 1],
      [time |-> R(0), tend |-> R(1), dtime |-> Frac(1, 2), steps |-> 0] }

\* the end-to-end run: rho_0 = 1e8, rho_1 = 9e7 (here in units of 1e7: x, its
\* derivatives and the step sizes depend on the ratios of the densities
\* only), tau = 0.1, delta_traj = 0.1
EndToEndTrajectory ==
    [rho_0 |-> R(10), rho_1 |-> R(9), tau |-> Frac(1, 10),
     delta |-> Frac(1, 10)]

\* the end-to-end run: tend = 10 and steps = 20 (the defaults), from time 0
\* with a first step of 1/4
EndToEndRun ==
    [time |-> R(0), tend |-> R(10), dtime |-> Frac(1, 4), steps |-> 20]

\* the trajectory and run options a run is started with
OptionPairs ==
    (TrajectoryOptions \X RunOptions) \cup {<<EndToEndTrajectory, EndToEndRun>>}

ToggleOptions ==
    [t9_guess : {"yes", "no"}, observe : {"yes", "no"}, sdot_xpath : BOOLEAN]

\* T9_0: the initial temperature
T9_0 == R(3)

\* what user::compute_entropy returns for the zone as initialised
InitialEntropy == R(1)

\* the roots nnt::compute_1d_root can return
T9Roots == {R(1), R(2)}

\* the step sizes Libnucnet__Zone__updateTimeStep can leave in d_dt
EngineSteps == {Frac(1, 4), R(2)}

\* the views a Libnucnet__NetView * can point to
EvolutionView == "evolution network view"

SdotView == "sdot view"

(***************************************************************************)
(* my_hydro_helper.cpp                                                     *)
(***************************************************************************)
Pow2Value(a) == RMul(a, a)

\* gsl_pow_2, GSL_POW_2
RPow2(a) == Once1(Pow2Value, a)

Pow3Value(a) == RMul(a, RMul(a, a))

\* gsl_pow_3, GSL_POW_3
RPow3(a) == Once1(Pow3Value, a)

Pow4Value(a) == RMul(RPow2(a), RPow2(a))

\* GSL_POW_4
RPow4(a) == Once1(Pow4Value, a)

\* exp(): 1 + q for q >= 0 and 1 / (1 - q) for q < 0, a rational stand-in
\* that is positive, increasing, 1 at 0 and satisfies exp(-q) = 1 / exp(q)
ExpValue(q) ==
    IF IsNaN(q) THEN NaN
    ELSE IF RLt(q, R(0)) THEN RInv(RSub(R(1), q))
    ELSE RAdd(R(1), q)

Exp(q) == Once1(ExpValue, q)

\* the test with >= for >
RejectsEqualDensities(vm) == RGe(vm.rho_1, vm.rho_0)

\* set_user_defined_options: the test that exits
RejectsOptions(vm) == RGt(vm.rho_1, vm.rho_0)

\* set_user_defined_options: the entries it makes in param_map
UserDefinedOptions(vm) ==
    [T9_0 |-> T9_0, rho_0 |-> vm.rho_0, rho_1 |-> vm.rho_1, tau |-> vm.tau,
     delta |-> vm.delta, rho_2 |-> RSub(vm.rho_0, vm.rho_1)]

\* boost::any_cast<double>( nnt::s_TAU ), boost::any_cast<double>(
\* nnt::s_RHO_0 ): the cast is applied to the key string itself, not to
\* param_map[key].  A boost::any holding a string is no double, and the cast
\* throws boost::bad_any_cast; the other outcome modelled is the one the
\* expression is written for, the value stored under the key (see key_cast).
KeyCast(pm, key) == pm[key]

\* initialize_state: x[0] = 1., then x[1]
initialize_state(pm) ==
    LET x0 == R(1)
        x1 == RDiv(
                RMul(RPow4(x0),
                     RAdd(RDiv(pm.rho_1, KeyCast(pm, "tau")),
                          RDiv(RMul(R(2), pm.rho_2), pm.delta))),
                RMul(R(3), KeyCast(pm, "rho_0")))
    IN  <<x0, x1>>

\* acceleration: the value it assigns to x[2]
AccelerationScratch(pm, xx, time) ==
    LET e == Exp(RDiv(RNeg(time), pm.tau))
        driving ==
            RMul(RMul(R(4), xx[2]),
                 RAdd(RMul(RDiv(pm.rho_1, KeyCast(pm, "tau")), e),
                      RDiv(RMul(R(2), pm.rho_2), pm.delta)))
        restoring ==
            RMul(xx[1],
                 RAdd(RMul(RDiv(pm.rho_1, RPow2(KeyCast(pm, "tau"))), e),
                      RDiv(RMul(R(6), pm.rho_2), RPow2(pm.delta))))
    IN  RDiv(RMul(RPow3(xx[1]), RSub(driving, restoring)),
             RMul(R(3), KeyCast(pm, "rho_0")))

\* the return value without the factor 3
AccelerationWithoutFactor(pm, xx) == RDiv(xx[2], pm.tau)

\* acceleration: the value it returns
AccelerationReturn(pm, xx) == RDiv(xx[2], RMul(R(3), pm.tau))

\* rho_function with gsl_pow_2 for gsl_pow_3
RhoWithSquare(pm, xx) == RDiv(pm.rho_0, RPow2(xx[1]))

\* rho_function
rho_function(pm, xx) == RDiv(pm.rho_0, RPow3(xx[1]))

(***************************************************************************)
(* The state of a run.                                                     *)
(***************************************************************************)
VARIABLES
    pc,         \* where main (or the right-hand side it is inside) stands
    key_cast,   \* what any_cast<double> of a key string does in this build
    vmap,       \* the options as parsed
    param_map,  \* my_user::param_map_t
    d_t, d_dt, d_t9_old, d_dt9dt, i_step, k,   \* main's locals
    x, xold,    \* main's state vectors (x[1..3] are the C++ x[0..2])
    zone,       \* nnt::Zone: its properties and its abundances
    stepper,    \* the adams_bashforth stepper and the do_step in progress
    rhs,        \* the frame of the entropy_generation_rhs call in progress
    output,     \* p_my_output and the output xml file
    hist        \* history of the run, read by the properties only

vars == <<pc, key_cast, vmap, param_map, d_t, d_dt, d_t9_old, d_dt9dt, i_step,
          k, x, xold, zone, stepper, rhs, output, hist>>

Zero3 == <<R(0), R(0), R(0)>>

NoRhs ==
    [arg |-> "none", pView |-> "none", d_t |-> R(0), d_dt |-> R(0),
     d_t9_old |-> R(0), p_abundances |-> <<>>,
     p_abundance_changes |-> <<>>, dxdt |-> Zero3]

\* no root of T9 has been looked for yet
NoSolve ==
    [view |-> "none", guess |-> R(0), rho |-> R(0),
     entropy_per_nucleon |-> R(0)]

\* get_input, up to its call of set_user_defined_options; main's doubles are
\* not yet assigned (they are written before they are read), x(3) is zeroed
Init ==
    /\ pc = "set_user_defined_options"
    /\ key_cast \in {"value", "bad_any_cast"}
    /\ \E op \in OptionPairs, to \in ToggleOptions :
          LET tr == op[1]
              ru == op[2]
          IN  vmap = [rho_0 |-> tr.rho_0, rho_1 |-> tr.rho_1, tau |-> tr.tau,
                      delta |-> tr.delta, time |-> ru.time, tend |-> ru.tend,
                      dtime |-> ru.dtime, steps |-> ru.steps,
                      t9_guess |-> to.t9_guess, observe |-> to.observe,
                      sdot_xpath |-> to.sdot_xpath]
    /\ param_map = [time |-> vmap.time, dtime |-> vmap.dtime,
                    tend |-> vmap.tend, steps |-> vmap.steps,
                    t9_guess |-> vmap.t9_guess, observe |-> vmap.observe,
                    has_view |-> vmap.sdot_xpath]
    /\ d_t = R(0) /\ d_dt = R(0) /\ d_t9_old = R(0) /\ d_dt9dt = R(0)
    /\ i_step = 0 /\ k = 0
    /\ x = Zero3 /\ xold = Zero3
    /\ zone = [t9 |-> R(0), rho |-> R(0), time |-> R(0), dtime |-> R(0),
               entropy_per_nucleon |-> R(0), abundances |-> <<>>,
               abundance_changes |-> <<>>, label |-> 0,
               has_observer |-> FALSE]
    /\ stepper = [m_steps_initialized |-> 0, stage |-> 0, x_tmp |-> Zero3,
                  k1 |-> Zero3]
    /\ rhs = NoRhs
    /\ output = [in_memory |-> <<>>, file_writes |-> 0]
    /\ hist = [failure |-> "none", rhs_calls |-> 0, do_steps |-> 0,
               observed |-> 0,
               rhs_t9_entry |-> R(0), rhs_t9_trial |-> R(0),
               rhs_x |-> Zero3, rhs_evolved |-> <<>>, observer |-> <<>>,
               t9_solve |-> NoSolve, checkpointed |-> <<>>]

(***************************************************************************)
(* set_user_defined_options, called at the end of get_input.               *)
(***************************************************************************)
\* rho_1 > rho_0: "rho_1 must be less than rho_0.", exit( EXIT_FAILURE )
SetUserDefinedOptionsExits ==
    /\ pc = "set_user_defined_options"
    /\ RejectsOptions(vmap)
    /\ pc' = "exit_failure"
    /\ UNCHANGED <<key_cast, vmap, param_map, d_t, d_dt, d_t9_old, d_dt9dt,
                   i_step, k, x, xold, zone, stepper, rhs, output, hist>>

SetUserDefinedOptions ==
    /\ pc = "set_user_defined_options"
    /\ ~RejectsOptions(vmap)
    /\ param_map' = param_map @@ UserDefinedOptions(vmap)
    /\ pc' = "initialize"
    /\ UNCHANGED <<key_cast, vmap, d_t, d_dt, d_t9_old, d_dt9dt, i_step, k,
                   x, xold, zone, stepper, rhs, output, hist>>

(***************************************************************************)
(* main: "Initialize the system".                                          *)
(***************************************************************************)
\* zone T9 and rho, d_t9_old, d_dt9dt, d_dt, d_t, initialize_state, x[2] from
\* the entropy function; the observer function is registered before, when
\* the observe option is "yes"
InitializeSystem ==
    /\ pc = "initialize"
    /\ key_cast = "value"
    /\ zone' = [zone EXCEPT !.t9 = param_map.T9_0, !.rho = param_map.rho_0,
                            !.has_observer = (param_map.observe = "yes")]
    /\ d_t9_old' = param_map.T9_0
    /\ d_dt9dt' = R(0)
    /\ d_dt' = param_map.dtime
    /\ d_t' = param_map.time
    /\ x' = <<initialize_state(param_map)[1], initialize_state(param_map)[2],
              InitialEntropy>>
    /\ pc' = "while"
    /\ UNCHANGED <<key_cast, vmap, param_map, i_step, k, xold, stepper, rhs,
                   output, hist>>

\* initialize_state assigns x[0] and then throws boost::bad_any_cast from the
\* cast of nnt::s_TAU; main catches nothing
InitializeStateThrows ==
    /\ pc = "initialize"
    /\ key_cast = "bad_any_cast"
    /\ zone' = [zone EXCEPT !.t9 = param_map.T9_0, !.rho = param_map.rho_0,
                            !.has_observer = (param_map.observe = "yes")]
    /\ d_t9_old' = param_map.T9_0
    /\ d_dt9dt' = R(0)
    /\ d_dt' = param_map.dtime
    /\ d_t' = param_map.time
    /\ x' = [x EXCEPT ![1] = R(1)]
    /\ pc' = "aborted"
    /\ hist' = [hist EXCEPT !.failure = "bad_any_cast"]
    /\ UNCHANGED <<key_cast, vmap, param_map, i_step, k, xold, stepper, rhs,
                   output>>

(***************************************************************************)
(* main: while ( d_t < tend ).                                             *)
(***************************************************************************)
\* the view handed to the right-hand side: p_view if one was configured,
\* else the zone's evolution network view
SdotViewOf(pm) == IF pm.has_view THEN SdotView ELSE EvolutionView

\* the part of the runs that the model follows
Small(a) == a[2] = 0 \/ (AbsInt(a[1]) <= MaxMagnitude /\ a[2] <= MaxMagnitude)

Followed ==
    /\ i_step < MaxIter
    /\ Small(d_t) /\ Small(d_dt)
    /\ \A i \in 1..3 : Small(x[i])

\* the loop test holds: set the zone's time, save x in xold, construct my_rhs
\* and enter stepper.do_step( my_rhs, x, d_t, d_dt )
LoopEnter ==
    /\ pc = "while"
    /\ RLt(d_t, param_map.tend)
    /\ Followed
    /\ zone' = [zone EXCEPT !.time = d_t]
    /\ xold' = x
    /\ stepper' = [stepper EXCEPT !.stage = 1]
    /\ hist' = [hist EXCEPT !.do_steps = @ + 1]
    /\ pc' = "do_step"
    /\ UNCHANGED <<key_cast, vmap, param_map, d_t, d_dt, d_t9_old, d_dt9dt,
                   i_step, k, x, rhs, output>>

\* the loop test fails
LoopExit ==
    /\ pc = "while"
    /\ ~RLt(d_t, param_map.tend)
    /\ pc' = "write_output"
    /\ UNCHANGED <<key_cast, vmap, param_map, d_t, d_dt, d_t9_old, d_dt9dt,
                   i_step, k, x, xold, zone, stepper, rhs, output, hist>>

\* Libnucnet__writeToXmlFile( p_my_output, argv[3] ), then return EXIT_SUCCESS
WriteOutput ==
    /\ pc = "write_output"
    /\ output' = [output EXCEPT !.file_writes = @ + 1]
    /\ pc' = "done"
    /\ UNCHANGED <<key_cast, vmap, param_map, d_t, d_dt, d_t9_old, d_dt9dt,
                   i_step, k, x, xold, zone, stepper, rhs, hist>>

(***************************************************************************)
(* stepper.do_step( my_rhs, x, d_t, d_dt ) of adams_bashforth<4>.  Its     *)
(* first AdamsBashforthSteps - 1 calls use an initialising one-step method *)
(* that evaluates the system again on a temporary state; the later calls   *)
(* evaluate it once, at ( x, d_t ).  The one-step method is taken with one *)
(* further evaluation, at ( x + dt k1, d_t + dt ), and the multistep       *)
(* formula with its leading term.                                          *)
(***************************************************************************)
ScaleValues(c, v) == <<RMul(c, v[1]), RMul(c, v[2]), RMul(c, v[3])>>

RScale(c, v) == Once2(ScaleValues, c, v)

Plus3Values(v, w) == <<RAdd(v[1], w[1]), RAdd(v[2], w[2]), RAdd(v[3], w[3])>>

RPlus3(v, w) == Once2(Plus3Values, v, w)

Initialising == stepper.m_steps_initialized + 1 < AdamsBashforthSteps

\* the stepper calls my_rhs( in, dxdt, t )
StepperCallRhs ==
    /\ pc = "do_step"
    /\ stepper.stage \in {1, 2}
    /\ rhs' = [NoRhs EXCEPT
                 !.arg = IF stepper.stage = 1 THEN "x" ELSE "x_tmp",
                 !.pView = SdotViewOf(param_map),
                 !.d_t = IF stepper.stage = 1 THEN d_t ELSE RAdd(d_t, d_dt)]
    /\ hist' = [hist EXCEPT
                  !.rhs_calls = @ + 1, !.rhs_t9_entry = zone.t9,
                  !.rhs_x = IF stepper.stage = 1 THEN x ELSE stepper.x_tmp,
                  !.observer = <<>>]
    /\ pc' = "rhs_enter"
    /\ UNCHANGED <<key_cast, vmap, param_map, d_t, d_dt, d_t9_old, d_dt9dt,
                   i_step, k, x, xold, zone, stepper, output>>

\* initialising: the first derivative is in, form the temporary state
StepperTrialState ==
    /\ pc = "rhs_return"
    /\ stepper.stage = 1
    /\ Initialising
    /\ stepper' = [stepper EXCEPT !.k1 = rhs.dxdt, !.stage = 2,
                                  !.x_tmp = RPlus3(x, RScale(d_dt, rhs.dxdt))]
    /\ rhs' = NoRhs
    /\ pc' = "do_step"
    /\ UNCHANGED <<key_cast, vmap, param_map, d_t, d_dt, d_t9_old, d_dt9dt,
                   i_step, k, x, xold, zone, output, hist>>

\* initialising: the second derivative is in, advance x
StepperInitialisingStep ==
    /\ pc = "rhs_return"
    /\ stepper.stage = 2
    /\ x' = RPlus3(x, RScale(RMul(Frac(1, 2), d_dt),
                             RPlus3(stepper.k1, rhs.dxdt)))
    /\ stepper' = [stepper EXCEPT !.stage = 0, !.m_steps_initialized = @ + 1]
    /\ rhs' = NoRhs
    /\ pc' = "update_properties"
    /\ UNCHANGED <<key_cast, vmap, param_map, d_t, d_dt, d_t9_old, d_dt9dt,
                   i_step, k, xold, zone, output, hist>>

\* initialised: the derivative is in, advance x
StepperMultistep ==
    /\ pc = "rhs_return"
    /\ stepper.stage = 1
    /\ ~Initialising
    /\ x' = RPlus3(x, RScale(d_dt, rhs.dxdt))
    /\ stepper' = [stepper EXCEPT !.stage = 0, !.k1 = rhs.dxdt]
    /\ rhs' = NoRhs
    /\ pc' = "update_properties"
    /\ UNCHANGED <<key_cast, vmap, param_map, d_t, d_dt, d_t9_old, d_dt9dt,
                   i_step, k, xold, zone, output, hist>>

(***************************************************************************)
(* The collaborators of the zone.                                          *)
(***************************************************************************)
\* the evolve function: the composition of the zone is the sequence of the
\* evolutions that made it, each with the view and the time step it was given
\* and the T9 and rho it found in the zone; the abundance changes are those of
\* the last evolution
Evolved(z, view, dt) ==
    [step |-> Len(z.abundances) + 1, view |-> view, dt |-> dt, t9 |-> z.t9,
     rho |-> z.rho]

Evolve(z, view, dt) ==
    [z EXCEPT !.abundances = Append(@, Evolved(z, view, dt)),
              !.abundance_changes = <<Evolved(z, view, dt)>>]

\* what the root finder is given: the view, the zone's T9 as its first
\* guess, and the rho and the entropy per nucleon of the zone
T9Solve(z, view) ==
    [view |-> view, guess |-> z.t9, rho |-> z.rho,
     entropy_per_nucleon |-> z.entropy_per_nucleon]

\* the entropy generation function on a view
EntropyGenerationRate(view) == IF view = SdotView THEN R(0) ELSE R(1)

(***************************************************************************)
(* entropy_generation_rhs::operator()                                      *)
(***************************************************************************)
\* the state vector the call was given: x itself, or the stepper's temporary
RhsX == IF rhs.arg = "x" THEN x ELSE stepper.x_tmp

\* RhsEnter with main's step size for d_t minus the zone's time
RhsEnterWithStepSize ==
    /\ pc = "rhs_enter"
    /\ rhs' = [rhs EXCEPT !.p_abundances = zone.abundances,
                          !.p_abundance_changes = zone.abundance_changes,
                          !.d_t9_old = zone.t9,
                          !.d_dt = d_dt]
    /\ zone' = [zone EXCEPT !.dtime = d_dt]
    /\ pc' = "rhs_properties"
    /\ UNCHANGED <<key_cast, vmap, param_map, d_t, d_dt, d_t9_old, d_dt9dt,
                   i_step, k, x, xold, stepper, output, hist>>

\* fetch the abundances, the abundance changes and T9, set the zone's dtime
RhsEnter ==
    /\ pc = "rhs_enter"
    /\ rhs' = [rhs EXCEPT !.p_abundances = zone.abundances,
                          !.p_abundance_changes = zone.abundance_changes,
                          !.d_t9_old = zone.t9,
                          !.d_dt = RSub(rhs.d_t, zone.time)]
    /\ zone' = [zone EXCEPT !.dtime = RSub(rhs.d_t, zone.time)]
    /\ pc' = "rhs_properties"
    /\ UNCHANGED <<key_cast, vmap, param_map, d_t, d_dt, d_t9_old, d_dt9dt,
                   i_step, k, x, xold, stepper, output, hist>>

\* RhsSetProperties without the update of the entropy per nucleon
RhsSetRhoOnly ==
    /\ pc = "rhs_properties"
    /\ zone' = [zone EXCEPT !.rho = rho_function(param_map, RhsX)]
    /\ pc' = "rhs_t9"
    /\ UNCHANGED <<key_cast, vmap, param_map, d_t, d_dt, d_t9_old, d_dt9dt,
                   i_step, k, x, xold, stepper, rhs, output, hist>>

\* entropy per nucleon from x[2], rho from the rho function
RhsSetProperties ==
    /\ pc = "rhs_properties"
    /\ zone' = [zone EXCEPT !.entropy_per_nucleon = RhsX[3],
                            !.rho = rho_function(param_map, RhsX)]
    /\ pc' = "rhs_t9"
    /\ UNCHANGED <<key_cast, vmap, param_map, d_t, d_dt, d_t9_old, d_dt9dt,
                   i_step, k, x, xold, stepper, rhs, output, hist>>

\* T9 from the t9 function on pView
RhsT9 ==
    /\ pc = "rhs_t9"
    /\ \E root \in T9Roots :
          /\ zone' = [zone EXCEPT !.t9 = root]
          /\ hist' = [hist EXCEPT !.rhs_t9_trial = root,
                                  !.t9_solve = T9Solve(zone, rhs.pView)]
    /\ pc' = "rhs_evolve"
    /\ UNCHANGED <<key_cast, vmap, param_map, d_t, d_dt, d_t9_old, d_dt9dt,
                   i_step, k, x, xold, stepper, rhs, output>>

\* the root finder throws
RhsT9Fails ==
    /\ pc = "rhs_t9"
    /\ hist' = [hist EXCEPT !.failure = "t9 in rhs"]
    /\ pc' = "aborted"
    /\ UNCHANGED <<key_cast, vmap, param_map, d_t, d_dt, d_t9_old, d_dt9dt,
                   i_step, k, x, xold, zone, stepper, rhs, output>>

\* the evolve function on ( pView, d_dt )
RhsEvolve ==
    /\ pc = "rhs_evolve"
    /\ zone' = Evolve(zone, rhs.pView, rhs.d_dt)
    /\ hist' = [hist EXCEPT !.rhs_evolved = zone'.abundances]
    /\ pc' = "rhs_derivatives"
    /\ UNCHANGED <<key_cast, vmap, param_map, d_t, d_dt, d_t9_old, d_dt9dt,
                   i_step, k, x, xold, stepper, rhs, output>>

\* the exception of the evolve function caught and dropped inside the call
RhsEvolveFailureDropped ==
    /\ pc = "rhs_evolve"
    /\ hist' = [hist EXCEPT !.failure = "evolve in rhs"]
    /\ pc' = "rhs_derivatives"
    /\ UNCHANGED <<key_cast, vmap, param_map, d_t, d_dt, d_t9_old, d_dt9dt,
                   i_step, k, x, xold, zone, stepper, rhs, output>>

\* the evolve function throws
RhsEvolveFails ==
    /\ pc = "rhs_evolve"
    /\ hist' = [hist EXCEPT !.failure = "evolve in rhs"]
    /\ pc' = "aborted"
    /\ UNCHANGED <<key_cast, vmap, param_map, d_t, d_dt, d_t9_old, d_dt9dt,
                   i_step, k, x, xold, zone, stepper, rhs, output>>

\* dxdt[0], dxdt[1] from the acceleration function (which also assigns x[2]
\* of the vector it is given), dxdt[2] from the entropy generation function
RhsDerivatives ==
    /\ pc = "rhs_derivatives"
    /\ rhs' = [rhs EXCEPT !.dxdt = <<RhsX[2],
                                     AccelerationReturn(param_map, RhsX),
                                     EntropyGenerationRate(rhs.pView)>>]
    /\ IF rhs.arg = "x"
       THEN /\ x' = [x EXCEPT ![3] =
                        AccelerationScratch(param_map, x, rhs.d_t)]
            /\ UNCHANGED stepper
       ELSE /\ stepper' = [stepper EXCEPT !.x_tmp[3] =
                        AccelerationScratch(param_map, stepper.x_tmp, rhs.d_t)]
            /\ UNCHANGED x
    /\ pc' = "rhs_observe"
    /\ UNCHANGED <<key_cast, vmap, param_map, d_t, d_dt, d_t9_old, d_dt9dt,
                   i_step, k, xold, zone, output, hist>>

\* RhsObserve without the test of hasFunction
RhsObserveAlways ==
    /\ pc = "rhs_observe"
    /\ hist' = [hist EXCEPT
                  !.observed = @ + 1,
                  !.observer = Append(@, [x |-> RhsX, dxdt |-> rhs.dxdt,
                                          d_t |-> rhs.d_t])]
    /\ pc' = "rhs_restore"
    /\ UNCHANGED <<key_cast, vmap, param_map, d_t, d_dt, d_t9_old, d_dt9dt,
                   i_step, k, x, xold, zone, stepper, rhs, output>>

\* the observer function, if the zone has one; it prints
RhsObserve ==
    /\ pc = "rhs_observe"
    /\ hist' = IF zone.has_observer
               THEN [hist EXCEPT
                       !.observed = @ + 1,
                       !.observer = Append(@, [x |-> RhsX, dxdt |-> rhs.dxdt,
                                               d_t |-> rhs.d_t])]
               ELSE hist
    /\ pc' = "rhs_restore"
    /\ UNCHANGED <<key_cast, vmap, param_map, d_t, d_dt, d_t9_old, d_dt9dt,
                   i_step, k, x, xold, zone, stepper, rhs, output>>

\* RhsRestore that also puts main's step size back in the zone's dtime
RhsRestoreWithDtime ==
    /\ pc = "rhs_restore"
    /\ zone' = [zone EXCEPT !.abundances = rhs.p_abundances,
                            !.abundance_changes = rhs.p_abundance_changes,
                            !.t9 = rhs.d_t9_old,
                            !.dtime = d_dt]
    /\ pc' = "rhs_return"
    /\ UNCHANGED <<key_cast, vmap, param_map, d_t, d_dt, d_t9_old, d_dt9dt,
                   i_step, k, x, xold, stepper, rhs, output, hist>>

\* RhsRestore with its last statement only
RhsRestoreT9Only ==
    /\ pc = "rhs_restore"
    /\ zone' = [zone EXCEPT !.t9 = rhs.d_t9_old]
    /\ pc' = "rhs_return"
    /\ UNCHANGED <<key_cast, vmap, param_map, d_t, d_dt, d_t9_old, d_dt9dt,
                   i_step, k, x, xold, stepper, rhs, output, hist>>

\* RhsRestore without its last statement
RhsRestoreWithoutT9 ==
    /\ pc = "rhs_restore"
    /\ zone' = [zone EXCEPT !.abundances = rhs.p_abundances,
                            !.abundance_changes = rhs.p_abundance_changes]
    /\ pc' = "rhs_return"
    /\ UNCHANGED <<key_cast, vmap, param_map, d_t, d_dt, d_t9_old, d_dt9dt,
                   i_step, k, x, xold, stepper, rhs, output, hist>>

\* put back the abundances, the abundance changes and T9, and return
RhsRestore ==
    /\ pc = "rhs_restore"
    /\ zone' = [zone EXCEPT !.abundances = rhs.p_abundances,
                            !.abundance_changes = rhs.p_abundance_changes,
                            !.t9 = rhs.d_t9_old]
    /\ pc' = "rhs_return"
    /\ UNCHANGED <<key_cast, vmap, param_map, d_t, d_dt, d_t9_old, d_dt9dt,
                   i_step, k, x, xold, stepper, rhs, output, hist>>

(***************************************************************************)
(* main: the rest of the loop body, after do_step has returned.            *)
(***************************************************************************)
\* d_t += d_dt; the zone's dtime, time, rho and entropy per nucleon; the
\* extrapolated T9 when a guess is asked for
UpdateProperties ==
    /\ pc = "update_properties"
    /\ d_t' = RAdd(d_t, d_dt)
    /\ zone' = [zone EXCEPT
                  !.dtime = d_dt,
                  !.time = RAdd(d_t, d_dt),
                  !.rho = rho_function(param_map, x),
                  !.entropy_per_nucleon = x[3],
                  !.t9 = IF param_map.t9_guess = "yes"
                         THEN RAdd(d_t9_old, RMul(d_dt9dt, d_dt)) ELSE @]
    /\ pc' = "update_t9"
    /\ UNCHANGED <<key_cast, vmap, param_map, d_dt, d_t9_old, d_dt9dt,
                   i_step, k, x, xold, stepper, rhs, output, hist>>

\* UpdateT9 with the root dropped: the zone keeps the T9 it had
UpdateT9KeepsGuess ==
    /\ pc = "update_t9"
    /\ hist' = [hist EXCEPT !.t9_solve = T9Solve(zone, EvolutionView)]
    /\ IF param_map.t9_guess = "yes"
       THEN /\ d_dt9dt' = RDiv(RSub(zone.t9, d_t9_old), d_dt)
            /\ d_t9_old' = zone.t9
       ELSE UNCHANGED <<d_dt9dt, d_t9_old>>
    /\ pc' = "evolve"
    /\ UNCHANGED <<key_cast, vmap, param_map, d_t, d_dt, i_step, k, x, xold,
                   zone, stepper, rhs, output>>

\* T9 from my_user::t9_function on the evolution network view, then the
\* slope and the old value when a guess is asked for
UpdateT9 ==
    /\ pc = "update_t9"
    /\ \E root \in T9Roots :
          /\ zone' = [zone EXCEPT !.t9 = root]
          /\ hist' = [hist EXCEPT !.t9_solve = T9Solve(zone, EvolutionView)]
          /\ IF param_map.t9_guess = "yes"
             THEN /\ d_dt9dt' = RDiv(RSub(root, d_t9_old), d_dt)
                  /\ d_t9_old' = root
             ELSE UNCHANGED <<d_dt9dt, d_t9_old>>
    /\ pc' = "evolve"
    /\ UNCHANGED <<key_cast, vmap, param_map, d_t, d_dt, i_step, k, x, xold,
                   stepper, rhs, output>>

\* the root finder throws
UpdateT9Fails ==
    /\ pc = "update_t9"
    /\ hist' = [hist EXCEPT !.failure = "t9 in main"]
    /\ pc' = "aborted"
    /\ UNCHANGED <<key_cast, vmap, param_map, d_t, d_dt, d_t9_old, d_dt9dt,
                   i_step, k, x, xold, zone, stepper, rhs, output>>

\* DriverEvolve on the view the right-hand side is given
DriverEvolveOnSdotView ==
    /\ pc = "evolve"
    /\ zone' = Evolve(zone, SdotViewOf(param_map), d_dt)
    /\ pc' = "print_abundances"
    /\ UNCHANGED <<key_cast, vmap, param_map, d_t, d_dt, d_t9_old, d_dt9dt,
                   i_step, k, x, xold, stepper, rhs, output, hist>>

\* the evolve function on the evolution network view and d_dt; the S_X
\* properties and the step's print under the observe option
DriverEvolve ==
    /\ pc = "evolve"
    /\ zone' = Evolve(zone, EvolutionView, d_dt)
    /\ pc' = "print_abundances"
    /\ UNCHANGED <<key_cast, vmap, param_map, d_t, d_dt, d_t9_old, d_dt9dt,
                   i_step, k, x, xold, stepper, rhs, output, hist>>

\* the evolve function throws
DriverEvolveFails ==
    /\ pc = "evolve"
    /\ hist' = [hist EXCEPT !.failure = "evolve in main"]
    /\ pc' = "aborted"
    /\ UNCHANGED <<key_cast, vmap, param_map, d_t, d_dt, d_t9_old, d_dt9dt,
                   i_step, k, x, xold, zone, stepper, rhs, output>>

(***************************************************************************)
(* main: "Print out abundances".                                           *)
(***************************************************************************)
\* i % n on size_t; n = 0 is undefined: the division traps, or (where the
\* instruction does not trap) the quotient is 0 and the remainder is i
Remainder(i, n) == IF n = 0 THEN i ELSE i % n

\* DumpCondition without its second operand
DumpEveryNthStepOnly == Remainder(i_step, param_map.steps) = 0

DumpCondition ==
    \/ Remainder(i_step, param_map.steps) = 0
    \/ RGe(d_t, param_map.tend)

\* the condition holds: relabel the zone with ++k and write it to p_my_output
PrintAbundances ==
    /\ pc = "print_abundances"
    /\ DumpCondition
    /\ i_step' = i_step + 1
    /\ k' = k + 1
    /\ zone' = [zone EXCEPT !.label = k + 1]
    /\ output' = [output EXCEPT
                    !.in_memory = Append(@, [label |-> k + 1,
                                             abundances |-> zone.abundances]),
                    !.file_writes =
                        IF B_OUTPUT_EVERY_TIME_DUMP THEN @ + 1 ELSE @]
    /\ hist' = [hist EXCEPT !.checkpointed = Append(@, i_step)]
    /\ pc' = "update_timestep"
    /\ UNCHANGED <<key_cast, vmap, param_map, d_t, d_dt, d_t9_old, d_dt9dt,
                   x, xold, stepper, rhs>>

\* the condition fails
SkipAbundances ==
    /\ pc = "print_abundances"
    /\ ~DumpCondition
    /\ i_step' = i_step + 1
    /\ pc' = "update_timestep"
    /\ UNCHANGED <<key_cast, vmap, param_map, d_t, d_dt, d_t9_old, d_dt9dt,
                   k, x, xold, zone, stepper, rhs, output, hist>>

\* steps is 0 and the division traps
StepsDivisionTraps ==
    /\ pc = "print_abundances"
    /\ param_map.steps = 0
    /\ hist' = [hist EXCEPT !.failure = "division by zero"]
    /\ pc' = "aborted"
    /\ UNCHANGED <<key_cast, vmap, param_map, d_t, d_dt, d_t9_old, d_dt9dt,
                   i_step, k, x, xold, zone, stepper, rhs, output>>

(***************************************************************************)
(* main: "Limit network" and "Update timestep".                            *)
(***************************************************************************)
\* one pass of the for loop without the test against x_lim
LimitStepWithoutFloor(d_h, i) ==
    LET delta == RAbs(RDiv(RSub(x[i], xold[i]), x[i]))
    IN  IF RGt(delta, R(0))
        THEN RMin(d_h, RDiv(RMul(D_X_REG_T, d_dt), delta))
        ELSE d_h

\* one pass of the for loop over the components of x
LimitStepValue(d_h, i) ==
    LET delta == RAbs(RDiv(RSub(x[i], xold[i]), x[i]))
    IN  IF RGt(delta, R(0)) /\ GtPow10Neg(x[i], x_lim[i])
        THEN RMin(d_h, RDiv(RMul(D_X_REG_T, d_dt), delta))
        ELSE d_h

LimitStep(d_h, i) == Once2(LimitStepValue, d_h, i)

\* d_h after the for loop
StepLimit == LimitStep(LimitStep(LimitStep(D_H_INIT, 1), 2), 3)

\* UpdateTimestep that rejects a step longer than d_h: x and d_t go back
UpdateTimestepRejects ==
    /\ pc = "update_timestep"
    /\ \E engine \in EngineSteps :
          LET limited == IF RGt(engine, StepLimit) THEN StepLimit ELSE engine
          IN  d_dt' = IF RGt(RAdd(d_t, limited), param_map.tend)
                      THEN RSub(param_map.tend, d_t)
                      ELSE limited
    /\ IF RGt(d_dt, StepLimit)
       THEN x' = xold /\ d_t' = RSub(d_t, d_dt)
       ELSE UNCHANGED <<x, d_t>>
    /\ pc' = "while"
    /\ UNCHANGED <<key_cast, vmap, param_map, d_t9_old, d_dt9dt, i_step,
                   k, xold, zone, stepper, rhs, output, hist>>

\* UpdateTimestep without the cap at tend
UpdateTimestepWithoutEndCap ==
    /\ pc = "update_timestep"
    /\ \E engine \in EngineSteps :
          d_dt' = IF RGt(engine, StepLimit) THEN StepLimit ELSE engine
    /\ pc' = "while"
    /\ UNCHANGED <<key_cast, vmap, param_map, d_t, d_t9_old, d_dt9dt, i_step,
                   k, x, xold, zone, stepper, rhs, output, hist>>

\* UpdateTimestep with the operands of the cap at tend exchanged
UpdateTimestepCapReversed ==
    /\ pc = "update_timestep"
    /\ \E engine \in EngineSteps :
          LET limited == IF RGt(engine, StepLimit) THEN StepLimit ELSE engine
          IN  d_dt' = IF RGt(RAdd(d_t, limited), param_map.tend)
                      THEN RSub(d_t, param_map.tend)
                      ELSE limited
    /\ pc' = "while"
    /\ UNCHANGED <<key_cast, vmap, param_map, d_t, d_t9_old, d_dt9dt, i_step,
                   k, x, xold, zone, stepper, rhs, output, hist>>

\* d_h, then the engine's step in d_dt, then the two caps
UpdateTimestep ==
    /\ pc = "update_timestep"
    /\ \E engine \in EngineSteps :
          LET limited == IF RGt(engine, StepLimit) THEN StepLimit ELSE engine
          IN  d_dt' = IF RGt(RAdd(d_t, limited), param_map.tend)
                      THEN RSub(param_map.tend, d_t)
                      ELSE limited
    /\ pc' = "while"
    /\ UNCHANGED <<key_cast, vmap, param_map, d_t, d_t9_old, d_dt9dt, i_step,
                   k, x, xold, zone, stepper, rhs, output, hist>>

(***************************************************************************)
(* The specification.                                                      *)
(***************************************************************************)
Next ==
    \/ SetUserDefinedOptionsExits
    \/ SetUserDefinedOptions
    \/ InitializeSystem
    \/ InitializeStateThrows
    \/ LoopEnter
    \/ LoopExit
    \/ WriteOutput
    \/ StepperCallRhs
    \/ StepperTrialState
    \/ StepperInitialisingStep
    \/ StepperMultistep
    \/ RhsEnter
    \/ RhsSetProperties
    \/ RhsT9
    \/ RhsT9Fails
    \/ RhsEvolve
    \/ RhsEvolveFails
    \/ RhsDerivatives
    \/ RhsObserve
    \/ RhsRestore
    \/ UpdateProperties
    \/ UpdateT9
    \/ UpdateT9Fails
    \/ DriverEvolve
    \/ DriverEvolveFails
    \/ PrintAbundances
    \/ SkipAbundances
    \/ StepsDivisionTraps
    \/ UpdateTimestep

Spec == Init /\ [][Next]_vars

\* the same, with the fairness of a running process: a step that can be
\* taken is taken
FairSpec == Spec /\ WF_vars(Next)

(***************************************************************************)
(* Properties.                                                             *)
(***************************************************************************)
\* the loop has been left at a bound of the model, not by the program
LeftAtBound == pc = "while" /\ RLt(d_t, param_map.tend) /\ ~Followed

\* C1: when a call of the right-hand side returns, the zone's T9 is the value
\* it had when the stepper made the call, whatever trial value the call set
\* in between.
C1_T9RestoredOnReturn == pc = "rhs_return" => zone.t9 = hist.rhs_t9_entry

\* C1, its case: a call has returned whose trial T9 differed from the T9 at
\* the call
C1_Witness ==
    /\ pc = "rhs_return"
    /\ hist.rhs_t9_trial # hist.rhs_t9_entry
    /\ zone.t9 = hist.rhs_t9_entry

\* C2: a run that starts with time < tend and reaches the end has d_t equal
\* to tend exactly, whatever dtime was.
C2_EndsExactlyAtTend ==
    (pc = "done" /\ RLt(vmap.time, vmap.tend)) => d_t = param_map.tend

\* C3: at the end of every iteration, after the step size has been updated,
\* d_t + d_dt <= tend.
C3_NextStepWithinTend ==
    (pc = "while" /\ i_step > 0) => RLe(RAdd(d_t, d_dt), param_map.tend)

\* C3, its case: an iteration has ended before tend with the step size cut
\* to the remaining interval
C3_Witness ==
    /\ pc = "while"
    /\ i_step > 0
    /\ RLt(d_t, param_map.tend)
    /\ RAdd(d_t, d_dt) = param_map.tend
    /\ d_dt \notin EngineSteps

C5_OutputWrittenOnce ==
    /\ pc = "done" => output.file_writes = 1
    /\ pc # "done" => output.file_writes = 0

\* C5, its case: a run that dumped several zones to p_my_output during the
\* loop has ended
C5_Witness ==
    /\ pc = "done"
    /\ Len(output.in_memory) >= 2
    /\ output.file_writes = 1

IsMultiple(i, n) == \E q \in 0..i : i = q * n

\* the steps (0-based) after which the zone was dumped
Dumped == {hist.checkpointed[j] : j \in 1..Len(hist.checkpointed)}

\* C6: once the dump of step i_step - 1 has been decided, a step i was dumped
\* exactly if i is a multiple of steps or d_t >= tend held after it (which
\* only the last step can see); no step was dumped twice; the labels of the
\* dumps are 1, 2, 3, ... in order.
C6_DumpsAndLabels ==
    pc \in {"update_timestep", "while", "write_output", "done"} =>
       /\ \A i \in 0..(i_step - 1) :
             i \in Dumped <=>
                \/ IsMultiple(i, param_map.steps)
                \/ i = i_step - 1 /\ RGe(d_t, param_map.tend)
       /\ \A j \in 1..(Len(hist.checkpointed) - 1) :
             hist.checkpointed[j] < hist.checkpointed[j + 1]
       /\ Len(output.in_memory) = Len(hist.checkpointed)
       /\ k = Len(output.in_memory)
       /\ \A j \in 1..Len(output.in_memory) : output.in_memory[j].label = j

\* C6, its case: with steps = 2, step 1 was skipped, step 2 dumped, and the
\* last step 3 dumped for having reached tend
C6_Witness ==
    /\ pc = "done"
    /\ param_map.steps = 2
    /\ hist.checkpointed = <<0, 2, 3>>
    /\ k = 3

\* C7: rho_1 > rho_0 ends the run in set_user_defined_options with failure,
\* before anything is initialised, evaluated or stepped; every other run has
\* rho_2 = rho_0 - rho_1 >= 0 (rho_1 = rho_0 included).
C7_DensitiesChecked ==
    /\ RGt(vmap.rho_1, vmap.rho_0) =>
          pc \in {"set_user_defined_options", "exit_failure"}
    /\ pc = "exit_failure" =>
          /\ RGt(vmap.rho_1, vmap.rho_0)
          /\ x = Zero3 /\ zone.t9 = R(0) /\ zone.rho = R(0)
          /\ hist.do_steps = 0 /\ hist.rhs_calls = 0
          /\ output.file_writes = 0
    /\ pc \notin {"set_user_defined_options", "exit_failure"} =>
          /\ param_map.rho_2 = RSub(vmap.rho_0, vmap.rho_1)
          /\ RGe(param_map.rho_2, R(0))

\* C7, its case: the run has ended in set_user_defined_options
C7_Witness == pc = "exit_failure" /\ RGt(vmap.rho_1, vmap.rho_0)

\* C8: a call of the right-hand side never gets past the density with
\* x[0] <= 0, and main never gets past it after a step that left x[0] <= 0.
C8_NoDensityForNonPositiveX ==
    /\ ~(pc = "rhs_t9" /\ RLe(RhsX[1], R(0)))
    /\ ~(pc = "update_t9" /\ RLe(x[1], R(0)))

\* C9: a failure of the evolve function or of the T9 root finder ends the
\* run in the step that raises it, with nothing committed by that step, and
\* no step follows a failure.
C9_FailureEndsRun ==
    [][/\ hist.failure = "none"
       /\ hist'.failure \in {"t9 in rhs", "evolve in rhs", "t9 in main",
                             "evolve in main"} =>
             /\ pc' = "aborted"
             /\ UNCHANGED <<zone, x, xold, d_t, d_dt, d_t9_old, d_dt9dt,
                            i_step, k, output, stepper, rhs>>]_vars

\* C9, its case: the evolve function failed inside a call of the right-hand
\* side in a later iteration, with the call's trial T9 in the zone
C9_Witness ==
    /\ pc = "aborted"
    /\ hist.failure = "evolve in rhs"
    /\ i_step >= 1
    /\ zone.t9 # hist.rhs_t9_entry

\* C10: after initialize_state, x[0] = 1 and x[1] is the finite number
\* (rho_1/tau + 2 rho_2/delta) / (3 rho_0), for every accepted set of options.
C10_InitialStateFinite ==
    (pc \in {"while", "aborted", "write_output", "done"} /\ hist.do_steps = 0)
       => /\ x[1] = R(1)
          /\ IsFinite(x[2])
          /\ x[2] = RDiv(RAdd(RDiv(vmap.rho_1, vmap.tau),
                              RDiv(RMul(R(2), RSub(vmap.rho_0, vmap.rho_1)),
                                   vmap.delta)),
                         RMul(R(3), vmap.rho_0))

(***************************************************************************)
(* rho_function as a function: a caller applies it to two argument vectors *)
(* in turn, with accepted options in param_map.                            *)
(***************************************************************************)
\* the vectors x the function is applied to
RhoArguments ==
    {<<a, b, c>> : a \in {R(-1), R(0), Frac(1, 2), R(1), R(2), R(3)},
                   b \in {R(0), R(1)}, c \in {R(1), R(2)}}

\* the states of the zone the function is applied in
RhoZones ==
    {[t9 |-> t, rho |-> R(0), time |-> R(0), dtime |-> R(0),
      entropy_per_nucleon |-> R(0), abundances |-> a,
      abundance_changes |-> a, label |-> 0, has_observer |-> FALSE] :
        t \in {R(1), R(3)},
        a \in {<<>>, <<[step |-> 1, view |-> EvolutionView, dt |-> R(1),
                        t9 |-> R(1), rho |-> R(1)]>>}}

\* param_map after set_user_defined_options has accepted the options; x and
\* the zone of the first application; hist is the sequence of applications
RhoInit ==
    /\ pc = "rho_function"
    /\ key_cast = "value"
    /\ \E tr \in TrajectoryOptions :
          /\ ~RejectsOptions(tr)
          /\ vmap = [rho_0 |-> tr.rho_0, rho_1 |-> tr.rho_1, tau |-> tr.tau,
                     delta |-> tr.delta, time |-> R(0), tend |-> R(1),
                     dtime |-> R(1), steps |-> 1, t9_guess |-> "no",
                     observe |-> "no", sdot_xpath |-> FALSE]
    /\ param_map = [time |-> vmap.time, dtime |-> vmap.dtime,
                    tend |-> vmap.tend, steps |-> vmap.steps,
                    t9_guess |-> vmap.t9_guess, observe |-> vmap.observe,
                    has_view |-> vmap.sdot_xpath] @@ UserDefinedOptions(vmap)
    /\ d_t = R(0) /\ d_dt = R(0) /\ d_t9_old = R(0) /\ d_dt9dt = R(0)
    /\ i_step = 0 /\ k = 0
    /\ x \in RhoArguments /\ xold = Zero3
    /\ zone \in RhoZones
    /\ stepper = [m_steps_initialized |-> 0, stage |-> 0, x_tmp |-> Zero3,
                  k1 |-> Zero3]
    /\ rhs = NoRhs
    /\ output = [in_memory |-> <<>>, file_writes |-> 0]
    /\ hist = <<>>

\* my_user::rho_function( param_map, x ) returns
RhoFunctionCall ==
    /\ pc = "rho_function"
    /\ hist' = Append(hist, [x |-> x, zone |-> zone,
                             returned |-> rho_function(param_map, x)])
    /\ pc' = IF Len(hist) = 0 THEN "rho_caller" ELSE "rho_done"
    /\ UNCHANGED <<key_cast, vmap, param_map, d_t, d_dt, d_t9_old, d_dt9dt,
                   i_step, k, x, xold, zone, stepper, rhs, output>>

\* the caller goes on to another x and another state of the zone
RhoNextArguments ==
    /\ pc = "rho_caller"
    /\ x' \in RhoArguments
    /\ zone' \in RhoZones
    /\ pc' = "rho_function"
    /\ UNCHANGED <<key_cast, vmap, param_map, d_t, d_dt, d_t9_old, d_dt9dt,
                   i_step, k, xold, stepper, rhs, output, hist>>

RhoNext == RhoFunctionCall \/ RhoNextArguments

RhoSpec == RhoInit /\ [][RhoNext]_vars

\* C11: every application of rho_function returns rho_0 / x[0]^3 (the number
\* whose product with x[0]^3 is rho_0, and rho_0 itself at x[0] = 1); of two
\* applications with 0 < x[0] < y[0] and rho_0 > 0 the first returns strictly
\* more; two applications with the same x[0] return the same, whatever the
\* other components of x and the state of the zone are.
C11_RhoFunction ==
    \A i \in 1..Len(hist) :
       LET c == hist[i]
       IN  /\ c.x[1] = R(1) => c.returned = param_map.rho_0
           /\ c.x[1] # R(0) =>
                 RMul(c.returned, RMul(c.x[1], RMul(c.x[1], c.x[1])))
                    = param_map.rho_0
           /\ \A j \in 1..Len(hist) :
                 LET d == hist[j]
                 IN  /\ ( /\ RGt(param_map.rho_0, R(0))
                          /\ RLt(R(0), c.x[1])
                          /\ RLt(c.x[1], d.x[1]) ) =>
                             RGt(c.returned, d.returned)
                     /\ c.x[1] = d.x[1] => c.returned = d.returned

\* C11, its case: two applications with 0 < x[0] < y[0], with different
\* other components and in different states of the zone, the first of which
\* returned more than rho_0 and the second less
C11_Witness ==
    /\ pc = "rho_done"
    /\ RLt(R(0), hist[1].x[1])
    /\ RLt(hist[1].x[1], R(1))
    /\ RLt(R(1), hist[2].x[1])
    /\ hist[1].x[2] # hist[2].x[2]
    /\ hist[1].x[3] # hist[2].x[3]
    /\ hist[1].zone # hist[2].zone
    /\ RGt(hist[1].returned, param_map.rho_0)
    /\ RLt(hist[2].returned, param_map.rho_0)

\* the run is the end-to-end run
EndToEnd ==
    /\ vmap.rho_0 = EndToEndTrajectory.rho_0
    /\ vmap.rho_1 = EndToEndTrajectory.rho_1
    /\ vmap.tau = EndToEndTrajectory.tau
    /\ vmap.delta = EndToEndTrajectory.delta
    /\ vmap.tend = EndToEndRun.tend
    /\ vmap.steps = EndToEndRun.steps

\* C12: in the end-to-end run, after every do_step the derivative of x[0]
\* (the component x[1]) is at most what it was before the step (xold[1]).
C12_VelocityNonIncreasing ==
    ( /\ EndToEnd
      /\ pc \in {"update_properties", "update_t9", "evolve",
                 "print_abundances", "update_timestep"} ) =>
         RLe(x[2], xold[2])

C14_ScratchNotRead ==
    /\ pc \in {"rhs_observe", "rhs_restore", "rhs_return"} =>
          RhsX[3] = hist.rhs_x[3]
    /\ \A j \in 1..Len(hist.observer) : hist.observer[j].x[3] = hist.rhs_x[3]

\* C15: a call of the right-hand side has made no call of the observer up to
\* its derivative computation, and exactly one after it if the observe option
\* is "yes", none otherwise; the observer is given the call's vector, time and
\* dxdt with all three components assigned (dxdt as the call returns it); the
\* step that calls the observer changes neither x, the stepper's vectors,
\* dxdt nor the zone.
C15_ObserverOncePerCall ==
    /\ [](pc \in {"rhs_enter", "rhs_properties", "rhs_t9", "rhs_evolve",
                  "rhs_derivatives", "rhs_observe"} =>
             Len(hist.observer) = 0)
    /\ [](pc \in {"rhs_restore", "rhs_return"} =>
             /\ Len(hist.observer) =
                   (IF param_map.observe = "yes" THEN 1 ELSE 0)
             /\ hist.observed =
                   (IF param_map.observe = "yes" THEN hist.rhs_calls ELSE 0)
             /\ \A j \in 1..Len(hist.observer) :
                   /\ hist.observer[j].x = RhsX
                   /\ hist.observer[j].d_t = rhs.d_t
                   /\ hist.observer[j].dxdt = rhs.dxdt
                   /\ hist.observer[j].dxdt =
                         <<RhsX[2], RDiv(RhsX[2], RMul(R(3), param_map.tau)),
                           EntropyGenerationRate(rhs.pView)>>)
    /\ [][pc = "rhs_observe" => UNCHANGED <<x, stepper, rhs, zone>>]_vars

\* C15, its case: the second call of a step has returned after its one call
\* of the observer, which was given the stepper's temporary vector, the time
\* d_t + d_dt and a dxdt different from the zeros it was constructed with
C15_Witness ==
    /\ pc = "rhs_return"
    /\ rhs.arg = "x_tmp"
    /\ param_map.observe = "yes"
    /\ Len(hist.observer) = 1
    /\ hist.observer[1].x = stepper.x_tmp
    /\ hist.observer[1].d_t = RAdd(d_t, d_dt)
    /\ \A i \in 1..3 : hist.observer[1].dxdt[i] # R(0)
    /\ hist.observed = hist.rhs_calls
    /\ hist.rhs_calls >= 2

\* C16: the dxdt of a right-hand side call that was given the vector x is
\* dxdt[0] = x[1], dxdt[1] = x[1] / (3 tau) (no time, rho_1, rho_2 or delta in
\* it), and dxdt[2] = what the entropy generation function returns for the
\* call's view, with nothing added.
C16_Derivatives ==
    pc \in {"rhs_observe", "rhs_restore", "rhs_return"} =>
       /\ rhs.dxdt[1] = hist.rhs_x[2]
       /\ rhs.dxdt[2] = RDiv(hist.rhs_x[2], RMul(R(3), vmap.tau))
       /\ rhs.dxdt[3] = EntropyGenerationRate(SdotViewOf(param_map))

\* C16, its case: a call at a later time than 0, on a vector whose x[1] is
\* not the initial one, in a run with rho_2 > 0, has returned a finite
\* nonzero dxdt[1]
C16_Witness ==
    /\ pc = "rhs_return"
    /\ RGt(rhs.d_t, R(0))
    /\ RGt(param_map.rho_2, R(0))
    /\ hist.rhs_x[2] # initialize_state(param_map)[2]
    /\ IsFinite(rhs.dxdt[2])
    /\ rhs.dxdt[2] # R(0)
    /\ RMul(rhs.dxdt[2], RMul(R(3), vmap.tau)) = hist.rhs_x[2]

\* C17: the first thing a right-hand side call at time t changes in the zone
\* is dtime, which it sets to t minus the zone's time (the time the step in
\* progress started from); dtime keeps that value for the rest of the call,
\* and it is the time step the call's evolve is given; a call at the time the
\* step started from gives evolve the time step 0.
C17_PendingStepSize ==
    /\ [][pc = "rhs_enter" =>
             zone' = [zone EXCEPT !.dtime = RSub(rhs.d_t, zone.time)]]_vars
    /\ [](pc \in {"rhs_properties", "rhs_t9", "rhs_evolve", "rhs_derivatives",
                  "rhs_observe", "rhs_restore", "rhs_return"} =>
             /\ zone.time = d_t
             /\ zone.dtime = RSub(rhs.d_t, zone.time)
             /\ rhs.d_dt = zone.dtime)
    /\ [](pc \in {"rhs_derivatives", "rhs_observe", "rhs_restore",
                  "rhs_return"} =>
             LET evolved == hist.rhs_evolved[Len(hist.rhs_evolved)]
             IN  /\ evolved.dt = RSub(rhs.d_t, zone.time)
                 /\ rhs.d_t = zone.time => evolved.dt = R(0))

\* C17, its case: in a later step, the call at the step's start time has
\* given evolve the time step 0 while main's step size is another
C17_Witness ==
    /\ pc = "rhs_derivatives"
    /\ i_step >= 1
    /\ rhs.arg = "x"
    /\ RGt(zone.time, R(0))
    /\ rhs.d_t = zone.time
    /\ zone.dtime = R(0)
    /\ zone.abundances[Len(zone.abundances)].dt = R(0)
    /\ RGt(d_dt, R(0))

\* C18: in a right-hand side call on the vector x, the root of T9 is looked
\* for on the call's view with the zone's entropy per nucleon already x[2]
\* and its rho already rho_0 / x[0]^3; evolve runs with the zone's T9 already
\* the root found and with that rho; and dxdt is assigned only after evolve
\* has run.
C18_OrderOfZoneUpdates ==
    /\ pc \in {"rhs_evolve", "rhs_derivatives", "rhs_observe", "rhs_restore",
               "rhs_return"} =>
          /\ hist.t9_solve.view = rhs.pView
          /\ hist.t9_solve.entropy_per_nucleon = hist.rhs_x[3]
          /\ hist.t9_solve.rho =
                RDiv(param_map.rho_0, RPow3(hist.rhs_x[1]))
    /\ pc \in {"rhs_derivatives", "rhs_observe", "rhs_restore",
               "rhs_return"} =>
          LET evolved == hist.rhs_evolved[Len(hist.rhs_evolved)]
          IN  /\ evolved.t9 = hist.rhs_t9_trial
              /\ evolved.rho = hist.t9_solve.rho
              /\ evolved.view = rhs.pView
    /\ pc \in {"rhs_enter", "rhs_properties", "rhs_t9", "rhs_evolve",
               "rhs_derivatives"} =>
          rhs.dxdt = Zero3

\* C18, its case: the second call of a step has evolved the zone at a trial
\* T9 different from the zone's T9 at the call, found at the rho and the
\* entropy per nucleon of the stepper's temporary vector, and has not assigned
\* dxdt yet
C18_Witness ==
    /\ pc = "rhs_derivatives"
    /\ rhs.arg = "x_tmp"
    /\ hist.rhs_t9_trial # hist.rhs_t9_entry
    /\ zone.t9 = hist.rhs_t9_trial
    /\ zone.abundances[Len(zone.abundances)].t9 = hist.rhs_t9_trial
    /\ IsFinite(zone.rho)
    /\ zone.rho # param_map.rho_0
    /\ hist.t9_solve.rho = zone.rho
    /\ hist.t9_solve.entropy_per_nucleon = stepper.x_tmp[3]
    /\ stepper.x_tmp[3] # x[3]
    /\ rhs.dxdt = Zero3

\* C19: the T9 of the zone after do_step is the T9 it had before (the calls
\* of the right-hand side have left none of theirs); main then looks for the
\* root on the evolution network view with the zone's rho = rho_0 / x[0]^3 and
\* entropy per nucleon = x[2] of the new x, starting from d_t9_old + d_dt9dt *
\* d_dt if t9_guess is "yes" and from the zone's T9 if not, and the T9 the
\* zone has from then on in the iteration is the root returned.
C19_T9CommittedByDriver ==
    /\ [](pc \in {"rhs_return", "update_properties"} =>
             /\ zone.t9 = hist.rhs_t9_entry
             /\ param_map.t9_guess = "yes" => zone.t9 = d_t9_old
             /\ i_step = 0 => zone.t9 = T9_0)
    /\ [][(pc = "update_t9" /\ pc' = "evolve") =>
             /\ hist'.t9_solve =
                   [view |-> EvolutionView,
                    guess |-> IF param_map.t9_guess = "yes"
                              THEN RAdd(d_t9_old, RMul(d_dt9dt, d_dt))
                              ELSE hist.rhs_t9_entry,
                    rho |-> RDiv(param_map.rho_0, RPow3(x[1])),
                    entropy_per_nucleon |-> x[3]]
             /\ zone'.t9 \in T9Roots]_vars
    /\ [](pc \in {"evolve", "print_abundances", "update_timestep"} =>
             /\ zone.t9 \in T9Roots
             /\ param_map.t9_guess = "yes" => zone.t9 = d_t9_old
             /\ hist.t9_solve.view = EvolutionView
             /\ hist.t9_solve.rho = zone.rho
             /\ hist.t9_solve.entropy_per_nucleon = zone.entropy_per_nucleon
             /\ zone.rho = RDiv(param_map.rho_0, RPow3(x[1]))
             /\ zone.entropy_per_nucleon = x[3])

\* C19, its case: in a later step with t9_guess "yes", the root finder was
\* started from an extrapolated T9 that is neither the T9 of the step before
\* nor a root, and the zone has the root
C19_Witness ==
    /\ pc = "evolve"
    /\ i_step >= 1
    /\ param_map.t9_guess = "yes"
    /\ IsFinite(hist.t9_solve.guess)
    /\ hist.t9_solve.guess # hist.rhs_t9_entry
    /\ hist.t9_solve.guess \notin T9Roots
    /\ zone.t9 \in T9Roots
    /\ zone.t9 # hist.rhs_t9_entry
    /\ IsFinite(zone.rho)

\* the relative change of component i in the step just made
RelativeChange(i) == RDiv(RAbs(RSub(x[i], xold[i])), RAbs(x[i]))

\* the components that bound the next step: above their floor 1e-10, 1, 1e-5
\* in absolute value, and with a relative change that is a number above 0
Bounding ==
    {i \in 1..3 : GtPow10Neg(x[i], x_lim[i]) /\ RGt(RelativeChange(i), R(0))}

\* their bounds 0.15 dt / delta_i, dt the size of the step just made
Candidates(dt) ==
    {RDiv(RMul(Frac(15, 100), dt), RelativeChange(i)) : i \in Bounding}

\* the least of a nonempty set of numbers
Least(S) == CHOOSE m \in S : \A c \in S : RLe(m, c)

\* the step sizes the claim allows after a step of size dt
NextStepSizes(dt) ==
    {LET m == IF Candidates(dt) = {} THEN engine
              ELSE IF RLt(Least(Candidates(dt)), engine)
                   THEN Least(Candidates(dt)) ELSE engine
     IN  IF RGt(RAdd(d_t, m), param_map.tend)
         THEN RSub(param_map.tend, d_t) ELSE m : engine \in EngineSteps}

\* C20: when an iteration has ended, the next step size d_dt is the least of
\* the engine's step and of 0.15 dt / delta_i over the bounding components,
\* cut to tend - d_t if it would pass tend; dt is the size of the step just
\* made (the zone's dtime), and xold the x before that step.
C20_NextStepSize ==
    (pc = "while" /\ i_step > 0) => d_dt \in NextStepSizes(zone.dtime)

\* C20, its case: an iteration has ended before tend with a step size below
\* every step of the engine that is the bound of one component, while another
\* component, nonzero but at or below its floor, has changed more than every
\* bounding one and would have set a smaller step
C20_Witness ==
    /\ pc = "while"
    /\ i_step > 0
    /\ RLt(RAdd(d_t, d_dt), param_map.tend)
    /\ \A engine \in EngineSteps : RLt(d_dt, engine)
    /\ d_dt \in Candidates(zone.dtime)
    /\ \E i \in 1..3 :
          /\ i \notin Bounding
          /\ IsFinite(x[i]) /\ x[i] # R(0)
          /\ \A j \in Bounding : RGt(RelativeChange(i), RelativeChange(j))

\* the places of an iteration from the entry of do_step to the dump
InIteration ==
    pc \in {"do_step", "rhs_enter", "rhs_properties", "rhs_t9", "rhs_evolve",
            "rhs_derivatives", "rhs_observe", "rhs_restore", "rhs_return",
            "update_properties", "update_t9", "evolve", "print_abundances"}

\* C21: every iteration makes one do_step (as many do_steps as iterations);
\* d_t changes only by d_t += d_dt after the do_step, with the d_dt that the
\* end of the iteration before left (the dtime option in the first), which
\* nothing changes in between; x changes only inside do_step and is as
\* do_step left it for the rest of the iteration; xold is only ever assigned
\* the x at the loop's head.
C21_NoStepRejected ==
    /\ [](InIteration => hist.do_steps = i_step + 1)
    /\ [](pc \in {"while", "update_timestep", "write_output", "done"} =>
             hist.do_steps = i_step)
    /\ []((InIteration /\ i_step = 0) => d_dt = param_map.dtime)
    /\ [][pc = "update_properties" => d_t' = RAdd(d_t, d_dt)]_vars
    /\ [][pc \notin {"initialize", "update_properties"} => d_t' = d_t]_vars
    /\ [][pc \notin {"initialize", "update_timestep"} => d_dt' = d_dt]_vars
    /\ [][pc \notin {"initialize", "rhs_derivatives", "rhs_return"} =>
             x' = x]_vars
    /\ [][xold' # xold => (pc = "while" /\ xold' = x)]_vars

\* C21, its case: the step just made was longer than the bound it gave for
\* the next one; it stands (d_t has advanced by it, x is not xold) and the
\* next step is the shorter one
C21_Witness ==
    /\ pc = "while"
    /\ i_step >= 1
    /\ hist.do_steps = i_step
    /\ d_t = RAdd(vmap.time, zone.dtime)
    /\ Candidates(zone.dtime) # {}
    /\ RLt(Least(Candidates(zone.dtime)), zone.dtime)
    /\ RLt(d_dt, zone.dtime)
    /\ x[1] # xold[1]
    /\ RLt(d_t, param_map.tend)

\* C22: in a right-hand side call, the root of T9 is looked for and evolve is
\* run on the evolution network view, whether or not a view of its own is
\* configured for the entropy generation; only the entropy generation rate is
\* taken on the configured view (on the evolution network view if none is).
C22_ViewsInRhs ==
    pc \in {"rhs_derivatives", "rhs_observe", "rhs_restore", "rhs_return"} =>
       /\ hist.t9_solve.view = EvolutionView
       /\ hist.rhs_evolved[Len(hist.rhs_evolved)].view = EvolutionView
       /\ pc # "rhs_derivatives" =>
             rhs.dxdt[3] = EntropyGenerationRate(SdotViewOf(param_map))

\* C23: a right-hand side call holds the abundances and the abundance changes
\* that the zone had when it began; its evolve leaves other ones in the zone
\* (the snapshot and one more evolution); when the call returns the zone has
\* those of the snapshot again, and as many evolutions as steps were made.
C23_AbundancesRolledBack ==
    /\ pc \in {"rhs_properties", "rhs_t9", "rhs_evolve"} =>
          /\ zone.abundances = rhs.p_abundances
          /\ zone.abundance_changes = rhs.p_abundance_changes
    /\ pc \in {"rhs_derivatives", "rhs_observe", "rhs_restore"} =>
          /\ Len(zone.abundances) = Len(rhs.p_abundances) + 1
          /\ SubSeq(zone.abundances, 1, Len(rhs.p_abundances))
                = rhs.p_abundances
          /\ zone.abundance_changes # rhs.p_abundance_changes
    /\ pc = "rhs_return" =>
          /\ zone.abundances = rhs.p_abundances
          /\ zone.abundance_changes = rhs.p_abundance_changes
          /\ Len(zone.abundances) = i_step
          /\ i_step = 0 => zone.abundance_changes = <<>>

\* C23, its case: in a later step the second call has returned; its evolve
\* had run over the whole step, and the zone has the abundances and changes
\* that main's evolve of the step before left
C23_Witness ==
    /\ pc = "rhs_return"
    /\ rhs.arg = "x_tmp"
    /\ i_step >= 1
    /\ RGt(hist.rhs_evolved[Len(hist.rhs_evolved)].dt, R(0))
    /\ hist.rhs_evolved # zone.abundances
    /\ Len(zone.abundances) = i_step
    /\ zone.abundance_changes = <<zone.abundances[i_step]>>
    /\ zone.abundances[i_step].view = EvolutionView

\* the places inside a right-hand side call
InRhs ==
    pc \in {"rhs_enter", "rhs_properties", "rhs_t9", "rhs_evolve",
            "rhs_derivatives", "rhs_observe", "rhs_restore"}

\* C24: no step of a right-hand side call changes the zone's time; from the
\* T9 root on and when the call returns, the zone's entropy per nucleon,
\* rho and dtime are the call's x[2] (as the call was given it), rho_0 /
\* x[0]^3 and t minus the zone's time, while T9 is back at its old value; and
\* the stepper changes nothing in the zone between and after the calls, so
\* these values stay until main sets the properties after do_step.
C24_TrialValuesLeft ==
    /\ [][InRhs => zone'.time = zone.time]_vars
    /\ [](pc \in {"rhs_t9", "rhs_evolve", "rhs_derivatives", "rhs_observe",
                  "rhs_restore", "rhs_return"} =>
             /\ zone.entropy_per_nucleon = hist.rhs_x[3]
             /\ zone.rho = RDiv(param_map.rho_0, RPow3(hist.rhs_x[1]))
             /\ zone.dtime = RSub(rhs.d_t, zone.time)
             /\ zone.time = d_t)
    /\ [](pc = "rhs_return" => zone.t9 = hist.rhs_t9_entry)
    /\ [][(pc \in {"rhs_return", "do_step"}) => zone' = zone]_vars
    /\ [][pc = "update_properties" =>
             /\ zone'.dtime = d_dt
             /\ zone'.time = RAdd(d_t, d_dt)
             /\ zone'.rho = RDiv(param_map.rho_0, RPow3(x[1]))
             /\ zone'.entropy_per_nucleon = x[3]]_vars

\* C24, its case: do_step has returned and main has not yet set the
\* properties: the zone has the rho and the entropy per nucleon of the last
\* call's vector (a rho that is not that of x, an entropy that is not the one
\* the step began with), and the old time and T9
C24_Witness ==
    /\ pc = "update_properties"
    /\ i_step >= 1
    /\ zone.time = d_t
    /\ zone.dtime = d_dt
    /\ zone.t9 = hist.rhs_t9_entry
    /\ zone.t9 # hist.rhs_t9_trial
    /\ zone.entropy_per_nucleon = hist.rhs_x[3]
    /\ zone.entropy_per_nucleon # xold[3]
    /\ zone.rho = RDiv(param_map.rho_0, RPow3(hist.rhs_x[1]))
    /\ IsFinite(zone.rho)
    /\ zone.rho # RDiv(param_map.rho_0, RPow3(x[1]))

====
